---- MODULE Spec2Model ----
(***************************************************************************)
(* Model of doc/source/conf.py of Mat4FVCOM: the Sphinx configuration      *)
(* module.  Evaluating the module ("Load") executes one import and 14      *)
(* top-level assignments in line order.  The only computed value is        *)
(* matlab_src_dir = os.path.abspath('../../src'), which on POSIX is        *)
(* normpath(join(os.getcwd(), '../../src')).                               *)
(*                                                                         *)
(* Strings that are paths are modelled as sequences of tokens, a token     *)
(* being either the separator "/" or a name that contains no separator.    *)
(* The process working directory is kept as its list of components and     *)
(* os.getcwd() renders it as a path string.                                *)
(***************************************************************************)
EXTENDS Integers, Sequences, FiniteSets, TLC

\* ---- bounds ----
MaxDepth == 3   \* deepest working directory considered
MaxLoads == 2   \* evaluations of conf.py in one behaviour

\* directory names a working directory is built from
Names == {"doc", "source"}

\* the configuration file is <checkout>/doc/source/conf.py, the repository
\* being checked out in /source
ConfDir == <<"source", "doc", "source">>

RECURSIVE PathsOfLen(_)
PathsOfLen(n) ==
    IF n = 0 THEN {<<>>}
    ELSE {Append(p, x) : p \in PathsOfLen(n - 1), x \in Names}

Paths == UNION {PathsOfLen(n) : n \in 0..MaxDepth}

\* ---- posixpath ----
RECURSIVE JoinComps(_)
\* '/'.join(comps), each component a token sequence
JoinComps(comps) ==
    IF Len(comps) = 0 THEN <<>>
    ELSE IF Len(comps) = 1 THEN comps[1]
    ELSE comps[1] \o <<"/">> \o JoinComps(Tail(comps))

\* the path string of the directory with the given components
PathString(dir) == <<"/">> \o JoinComps([i \in 1..Len(dir) |-> <<dir[i]>>])

\* os.getcwd()
getcwd(wd) == PathString(wd)

RECURSIVE SplitFrom(_, _, _)
SplitFrom(s, i, cur) ==
    IF i > Len(s) THEN <<cur>>
    ELSE IF s[i] = "/" THEN <<cur>> \o SplitFrom(s, i + 1, <<>>)
    ELSE SplitFrom(s, i + 1, Append(cur, s[i]))

\* path.split('/')
split(s) == SplitFrom(s, 1, <<>>)

startswith(s, n) == Len(s) >= n /\ \A i \in 1..n : s[i] = "/"

\* posixpath.join(a, b)
join(a, b) ==
    IF startswith(b, 1) THEN b
    ELSE IF Len(a) = 0 \/ a[Len(a)] = "/" THEN a \o b
    ELSE a \o <<"/">> \o b

\* number of leading slashes normpath keeps: 0, 1 or 2
initial_slashes(path) ==
    IF ~startswith(path, 1) THEN 0
    ELSE IF startswith(path, 2) /\ ~startswith(path, 3) THEN 2
    ELSE 1

RECURSIVE new_comps(_, _, _, _)
\* the loop of normpath over comps[i..], acc being new_comps so far
new_comps(comps, i, acc, slashes) ==
    IF i > Len(comps) THEN acc
    ELSE LET comp == comps[i] IN
         IF comp = <<>> \/ comp = <<".">>
         THEN new_comps(comps, i + 1, acc, slashes)
         ELSE IF \/ comp # <<"..">>
                 \/ (slashes = 0 /\ Len(acc) = 0)
                 \/ (Len(acc) > 0 /\ acc[Len(acc)] = <<"..">>)
         THEN new_comps(comps, i + 1, Append(acc, comp), slashes)
         ELSE IF Len(acc) > 0
         THEN new_comps(comps, i + 1, SubSeq(acc, 1, Len(acc) - 1), slashes)
         ELSE new_comps(comps, i + 1, acc, slashes)

\* posixpath.normpath(path)
normpath(path) ==
    IF Len(path) = 0 THEN <<".">>
    ELSE LET n == initial_slashes(path)
             body == JoinComps(new_comps(split(path), 1, <<>>, n))
             res == [i \in 1..n |-> "/"] \o body
         IN IF Len(res) = 0 THEN <<".">> ELSE res

\* posixpath.abspath(path) in a process whose working directory is wd
abspath(wd, path) ==
    IF ~startswith(path, 1) THEN normpath(join(getcwd(wd), path))
    ELSE normpath(path)

\* ---- the values conf.py assigns ----
project == "Mat4FVCOM"
copyright == "2025, li12242"
author == "li12242"
release == "v1"

\* '../src': one '..' too few
matlab_src_dir_one_up(wd) == abspath(wd, <<"..", "/", "src">>)

matlab_src_dir(wd) == abspath(wd, <<"..", "/", "..", "/", "src">>)

\* autodoc listed before the MATLAB domain
extensions_reordered ==
    <<"sphinx.ext.autodoc", "sphinxcontrib.matlab", "sphinx.ext.mathjax",
      "myst_parser">>

extensions ==
    <<"sphinxcontrib.matlab", "sphinx.ext.autodoc", "sphinx.ext.mathjax",
      "myst_parser">>

primary_domain == "mat"

\* the '.txt' entry left out
source_suffix_no_txt ==
    (".rst" :> "restructuredtext") @@ (".md" :> "markdown")

source_suffix ==
    (".rst" :> "restructuredtext") @@ (".txt" :> "restructuredtext")
        @@ (".md" :> "markdown")

mathjax_path == "es5/tex-chtml.js"
templates_path == <<"_templates">>

\* a build directory excluded
exclude_patterns_build == <<"_build">>

exclude_patterns == <<>>

\* the generator's default locale
language_en == "en"

language == "zh_CN"

\* the generator's default theme
html_theme_default == "alabaster"

html_theme == "sphinx_rtd_theme"
html_static_path == <<"_static">>

\* the names conf.py binds for the generator
Fields ==
    {"project", "copyright", "author", "release", "matlab_src_dir",
     "extensions", "primary_domain", "source_suffix", "mathjax_path",
     "templates_path", "exclude_patterns", "language", "html_theme",
     "html_static_path"}

\* release assigned a second time at the end of the file
Program_reassign ==
    <<"import os", "project", "copyright", "author", "release",
      "matlab_src_dir", "extensions", "primary_domain", "source_suffix",
      "mathjax_path", "templates_path", "exclude_patterns", "language",
      "html_theme", "html_static_path", "release">>

\* the language assignment left out
Program_no_language ==
    <<"import os", "project", "copyright", "author", "release",
      "matlab_src_dir", "extensions", "primary_domain", "source_suffix",
      "mathjax_path", "templates_path", "exclude_patterns",
      "html_theme", "html_static_path">>

\* the statements of conf.py in line order
Program ==
    <<"import os", "project", "copyright", "author", "release",
      "matlab_src_dir", "extensions", "primary_domain", "source_suffix",
      "mathjax_path", "templates_path", "exclude_patterns", "language",
      "html_theme", "html_static_path">>

NStmts == Len(Program)

\* matlab_src_dir tabulated over the working directories of the model, so
\* that the path is resolved once per directory
SrcDirIn == [wd \in Paths |-> matlab_src_dir(wd)]

\* the right-hand side of the assignment to name f, evaluated in wd
Value(f, wd) ==
    CASE f = "project" -> project
      [] f = "copyright" -> copyright
      [] f = "author" -> author
      [] f = "release" -> release
      [] f = "matlab_src_dir" -> SrcDirIn[wd]
      [] f = "extensions" -> extensions
      [] f = "primary_domain" -> primary_domain
      [] f = "source_suffix" -> source_suffix
      [] f = "mathjax_path" -> mathjax_path
      [] f = "templates_path" -> templates_path
      [] f = "exclude_patterns" -> exclude_patterns
      [] f = "language" -> language
      [] f = "html_theme" -> html_theme
      [] f = "html_static_path" -> html_static_path

\* ---- state ----
VARIABLES
    phase,     \* "idle" | "loading" | "loaded"
    pc,        \* statements of conf.py executed by the current load
    cwd,       \* process working directory, as components
    conf,      \* module namespace of the current load: name -> value
    assigned,  \* name -> number of assignments in the current load
    loadCwd,   \* working directory the current load's abspath call saw
    prev,      \* namespace produced by the previous load
    prevCwd,   \* working directory of the previous load
    loads      \* loads started

vars == <<phase, pc, cwd, conf, assigned, loadCwd, prev, prevCwd, loads>>

\* the namespace with no configuration name bound
Empty == [f \in {} |-> 0]

Init ==
    /\ phase = "idle"
    /\ pc = 0
    /\ cwd \in Paths
    /\ conf = Empty
    /\ assigned = [f \in Fields |-> 0]
    /\ loadCwd = <<>>
    /\ prev = Empty
    /\ prevCwd = <<>>
    /\ loads = 0

\* the host changes the process working directory; conf.py itself never does
Chdir(d) ==
    /\ phase # "loading"
    /\ loads < MaxLoads
    /\ d # cwd
    /\ cwd' = d
    /\ UNCHANGED <<phase, pc, conf, assigned, loadCwd, prev, prevCwd, loads>>

\* the host starts evaluating conf.py in a fresh namespace
Start ==
    /\ phase # "loading"
    /\ loads < MaxLoads
    /\ phase' = "loading"
    /\ pc' = 0
    /\ prev' = conf
    /\ prevCwd' = loadCwd
    /\ conf' = Empty
    /\ assigned' = [f \in Fields |-> 0]
    /\ loadCwd' = cwd
    /\ loads' = loads + 1
    /\ UNCHANGED cwd

\* the interpreter executes the next statement of conf.py
Step ==
    /\ phase = "loading"
    /\ pc < NStmts
    /\ LET s == Program[pc + 1] IN
         IF s \in Fields
         THEN /\ conf' = [f \in DOMAIN conf \cup {s} |->
                             IF f = s THEN Value(s, cwd) ELSE conf[f]]
              /\ assigned' = [assigned EXCEPT ![s] = @ + 1]
         ELSE UNCHANGED <<conf, assigned>>
    /\ pc' = pc + 1
    /\ phase' = IF pc + 1 = NStmts THEN "loaded" ELSE "loading"
    /\ UNCHANGED <<cwd, loadCwd, prev, prevCwd, loads>>

Next ==
    \/ \E d \in Paths : Chdir(d)
    \/ Start
    \/ Step

Spec == Init /\ [][Next]_vars

\* the interpreter runs a started evaluation to its end
FairSpec == Spec /\ WF_vars(Step)

TypeOK ==
    /\ phase \in {"idle", "loading", "loaded"}
    /\ pc \in 0..NStmts
    /\ cwd \in Paths
    /\ loads \in 0..MaxLoads
    /\ DOMAIN conf \subseteq Fields

Loaded == phase = "loaded"
\* the directory above dir; the root is its own parent
Parent(dir) == IF Len(dir) = 0 THEN dir ELSE SubSeq(dir, 1, Len(dir) - 1)

Range(seq) == {seq[i] : i \in 1..Len(seq)}

\* C1: after Load, matlab_src_dir is the absolute path of the parent of the
\* parent of the configuration file's directory joined with 'src', whatever
\* working directory the load was started from.
C1_SrcDirFromConfLocation ==
    Loaded => conf["matlab_src_dir"]
                  = PathString(Append(Parent(Parent(ConfDir)), "src"))

\* C2: two loads in succession yield records that agree on every one of the
\* 14 fields, whatever happened between the two loads.
C2_TwoLoadsIdentical ==
    (Loaded /\ loads >= 2) =>
        /\ DOMAIN prev = Fields
        /\ \A f \in Fields : prev[f] = conf[f]

\* C3: after Load, extensions is exactly the four plugins in the order MATLAB
\* domain, autodoc, mathjax, Markdown parser, with no duplicate.
C3_ExtensionsExact ==
    Loaded =>
        /\ Len(conf["extensions"]) = 4
        /\ conf["extensions"][1] = "sphinxcontrib.matlab"
        /\ conf["extensions"][2] = "sphinx.ext.autodoc"
        /\ conf["extensions"][3] = "sphinx.ext.mathjax"
        /\ conf["extensions"][4] = "myst_parser"
        /\ Cardinality(Range(conf["extensions"])) = 4

C3_Witness ==
    Loaded /\ "extensions" \in DOMAIN conf /\ Len(conf["extensions"]) = 4

\* C4: after Load, source_suffix has domain exactly {.rst, .txt, .md}, with
\* .rst and .txt mapped to 'restructuredtext' and .md to 'markdown'.
C4_SourceSuffixExact ==
    Loaded =>
        /\ DOMAIN conf["source_suffix"] = {".rst", ".txt", ".md"}
        /\ conf["source_suffix"][".rst"] = "restructuredtext"
        /\ conf["source_suffix"][".txt"] = "restructuredtext"
        /\ conf["source_suffix"][".md"] = "markdown"

C4_Witness ==
    Loaded /\ "source_suffix" \in DOMAIN conf
           /\ ".md" \in DOMAIN conf["source_suffix"]

\* C5: a completed load has project 'Mat4FVCOM', html_theme
\* 'sphinx_rtd_theme' and primary_domain 'mat', all three at once.
C5_EndToEnd ==
    Loaded =>
        /\ conf["project"] = "Mat4FVCOM"
        /\ conf["html_theme"] = "sphinx_rtd_theme"
        /\ conf["primary_domain"] = "mat"

C5_Witness ==
    Loaded /\ {"project", "html_theme", "primary_domain"} \subseteq DOMAIN conf

\* C6: after Load, templates_path is the one entry '_templates',
\* exclude_patterns is empty and html_static_path is the one entry '_static'.
C6_PathListsExact ==
    Loaded =>
        /\ conf["templates_path"] = <<"_templates">>
        /\ Len(conf["exclude_patterns"]) = 0
        /\ conf["html_static_path"] = <<"_static">>

C6_Witness ==
    Loaded /\ "exclude_patterns" \in DOMAIN conf
           /\ Len(conf["templates_path"]) = 1
           /\ Len(conf["html_static_path"]) = 1

\* C7: after Load, language is the Simplified Chinese locale 'zh_CN'.
C7_LanguageZhCN == Loaded => conf["language"] = "zh_CN"

C7_Witness == Loaded /\ "language" \in DOMAIN conf

\* C8: during one load no field is assigned more than once, a completed load
\* has assigned each of the 14 fields exactly once, and while the load stays
\* completed the record does not change.
C8_AssignedOnceThenReadOnly ==
    /\ [](\A f \in Fields : assigned[f] <= 1)
    /\ [](Loaded => \A f \in Fields : assigned[f] = 1)
    /\ [][(Loaded /\ Loaded') => (conf' = conf /\ assigned' = assigned)]_vars

\* a completed record that has outlived a change of working directory
C8_Witness ==
    Loaded /\ cwd # loadCwd /\ \A f \in Fields : assigned[f] = 1

C10_CwdOnlyInput ==
    Loaded =>
        /\ conf["matlab_src_dir"]
               = PathString(Append(Parent(Parent(loadCwd)), "src"))
        /\ loads >= 2 =>
              /\ prevCwd = loadCwd
                    => prev["matlab_src_dir"] = conf["matlab_src_dir"]
              /\ \A f \in Fields \ {"matlab_src_dir"} : prev[f] = conf[f]

\* a second load from another, deeper directory gave another matlab_src_dir
C10_Witness ==
    /\ Loaded /\ loads >= 2
    /\ prevCwd # loadCwd /\ Len(loadCwd) >= 3
    /\ prev["matlab_src_dir"] # conf["matlab_src_dir"]
====
